---- MODULE Spec2Model ----
(***************************************************************************)
(* Model of src/main.py: the Flipbook capture script.                      *)
(*                                                                         *)
(*   Spec       the whole program: main, process_single_url and the loop   *)
(*              of capture_and_save_images, every external call able to    *)
(*              raise.                                                     *)
(*   FairSpec   Spec with weak fairness of Next: the script is one thread  *)
(*              that keeps executing until it returns or raises.           *)
(*   ImageSpec  the two pure image functions, reduce_image_size and        *)
(*              replace_borders_with_white, applied to images drawn from   *)
(*              bounded sets.                                              *)
(*                                                                         *)
(* An image is its size and, per pixel column, the content of that column  *)
(* (the claims about pixels are claims about columns).                     *)
(***************************************************************************)
EXTENDS Integers, Sequences, FiniteSets, TLC

VARIABLES
    \* ---- the program (Spec, FairSpec)
    args,       \* the parsed command line
    fs,         \* the file system: folder -> page numbers n of its files pag_n.jpg
    pc,         \* the statement the script is at
    row,        \* number of rows main has read from the CSV reader
    i,          \* loop index of capture_and_save_images
    frame,      \* size of full_image
    region,     \* sizes of region_left and region_right
    img,        \* sizes of img_left and img_right
    trace,      \* history: the steps of the capture loop in the current Job
    jobs,       \* history: one record per call of process_single_url
    failure,    \* history: where the uncaught exception was raised
    \* ---- the image functions (ImageSpec)
    image,      \* the image the last function returned (the input at first)
    prev,       \* the image that function was applied to
    iop         \* the function applied last: "none", "reduce", "borders" or "save"

vars ==
    <<args, fs, pc, row, i, frame, region, img, trace, jobs, failure, image, prev, iop>>
progVars == <<args, fs, pc, row, i, frame, region, img, trace, jobs, failure>>
imageVars == <<image, prev, iop>>

-----------------------------------------------------------------------------
\* Bounds of the model.

\* Most rows of a CSV batch.
MaxRows == 2
\* Largest iteration count of a row.
MaxIterations == 2
\* Input images are drawn this many pixels either side of each critical size.
Slack == 1

-----------------------------------------------------------------------------
\* Program constants.

TOP == 63
LEFT == 704
BOTTOM == 1781
RIGHT == 3136
\* (RIGHT - LEFT) / 2 is the float 1216.0; Image.crop rounds its box to integers.
SPLIT_HEIGHT == (RIGHT - LEFT) \div 2
PAGE_LEFT == <<LEFT, TOP, LEFT + SPLIT_HEIGHT, BOTTOM>>
PAGE_RIGHT == <<LEFT + SPLIT_HEIGHT, TOP, RIGHT, BOTTOM>>
BORDER_SIZE == 50
a4_width == 2480
a4_height == 3508

-----------------------------------------------------------------------------
\* Images (PIL.Image as the script uses it).

White == <<"white", 0>>
\* What Image.crop puts where its box lies outside the image.
Fill == <<"fill", 0>>
\* Column c of an input image.
Src(c) == <<"src", c>>
\* Column c of a resampled image that is not uniformly white.
Resampled(c) == <<"lanczos", c>>

NoPixels == [c \in {} |-> White]
\* An image: its size and its columns. The program's images are held by size
\* alone (tracked = FALSE, no columns); ImageSpec holds the columns too.
Img(w, h, tracked, px) ==
    [w |-> w, h |-> h, tracked |-> tracked, px |-> IF tracked THEN px ELSE NoPixels,
     err |-> ""]
\* An exception raised instead of an image being returned.
Raised(e) == [w |-> 0, h |-> 0, tracked |-> FALSE, px |-> NoPixels, err |-> e]
IsError(x) == x.err # ""
Columns(im) == 0 .. (im.w - 1)

\* Image.new(mode, size, color): a negative size raises, a zero size does not.
Image_new(w, h, color) ==
    IF w < 0 \/ h < 0
    THEN Raised("ValueError")
    ELSE Img(w, h, TRUE, [c \in 0 .. (w - 1) |-> color])

\* image.crop(box): the result has the box's size; what lies outside the image
\* is filled.
crop(im, box) ==
    LET l == box[1]
        t == box[2]
        r == box[3]
        b == box[4]
    IN  IF r < l \/ b < t
        THEN Raised("ValueError")
        ELSE Img(r - l, b - t, im.tracked,
                 [c \in 0 .. (r - l - 1) |->
                    IF (l + c) \in Columns(im) /\ t >= 0 /\ b <= im.h
                    THEN im.px[l + c]
                    ELSE Fill])

\* dest.paste(src, (x, y)) with y = 0: the columns src covers are src's.
paste(dest, src, x) ==
    Img(dest.w, dest.h, dest.tracked /\ src.tracked,
        [c \in Columns(dest) |->
            IF (c - x) \in Columns(src) /\ src.h >= dest.h
            THEN src.px[c - x]
            ELSE dest.px[c]])

\* image.resize(size, Image.LANCZOS): a size below 1 raises.
resize(im, w, h) ==
    IF w < 1 \/ h < 1
    THEN Raised("ValueError")
    ELSE LET blank == \A d \in Columns(im) : im.px[d] = White
         IN  Img(w, h, im.tracked,
                 [c \in 0 .. (w - 1) |-> IF blank THEN White ELSE Resampled(c)])

\* image.save(path, format="JPEG"): an empty image cannot be written.
CanSave(w, h) == w > 0 /\ h > 0

\* int(x) of the float quotient n / d computed through the float aspect_ratio.
\* When n / d is not an integer the result is its floor; when it is, the two
\* roundings may leave the float just below it, and int() then gives one less
\* (slip = 1), as for 2511 x 1215: int(2480 / (2511 / 1215)) = 1199.
IntOfFloat(n, d, slip) ==
    IF n % d = 0 THEN (n \div d) - slip ELSE n \div d

reduce_image_size(im, slip) ==
    LET width == im.w
        height == im.h
    IN  IF width > a4_width \/ height > a4_height
        THEN IF width > height  \* aspect_ratio > 1
             THEN resize(im, a4_width, IntOfFloat(a4_width * height, width, slip))
             ELSE resize(im, IntOfFloat(a4_height * width, height, slip), a4_height)
        ELSE im

\* A crop that starts at the left edge instead of past the border.
InteriorBoxFromEdge(width, height, border_size) ==
    <<0, 0, width - 2 * border_size, height>>

\* The box that replace_borders_with_white crops.
InteriorBox(width, height, border_size) ==
    <<border_size, 0, width - border_size, height>>

replace_borders_with_white(im, border_size) ==
    LET width == im.w
        height == im.h
        new_width == width - 2 * border_size
        new_image == Image_new(new_width, height, White)
        cropped_image == crop(im, InteriorBox(width, height, border_size))
    IN  IF IsError(new_image) THEN new_image
        ELSE IF IsError(cropped_image) THEN cropped_image
        ELSE paste(new_image, cropped_image, 0)

-----------------------------------------------------------------------------
\* ImageSpec: the image functions on bounded inputs.

Around(n) == { m \in (n - Slack) .. (n + Slack) : m >= 1 }
\* Widths and heights either side of the sizes where the code's branches turn.
InputWidths == Around(2 * BORDER_SIZE) \cup Around(a4_width) \cup Around(3000)
InputHeights == Around(1) \cup Around(a4_height) \cup Around(3100)

\* Every column different and none white.
Ramp(w, h) == Img(w, h, TRUE, [c \in 0 .. (w - 1) |-> Src(c)])
Blank(w, h) == Img(w, h, TRUE, [c \in 0 .. (w - 1) |-> White])
\* White within BORDER_SIZE of the left and right edge.
Framed(w, h) ==
    Img(w, h, TRUE, [c \in 0 .. (w - 1) |->
                  IF c < BORDER_SIZE \/ c >= w - BORDER_SIZE THEN White ELSE Src(c)])

InputImages ==
    UNION { {Ramp(w, h), Blank(w, h), Framed(w, h)} :
              w \in InputWidths, h \in InputHeights }

NoArgs == [csv_file |-> FALSE, url |-> FALSE, iterations |-> 0, folder |-> ""]
NoFailure == [at |-> "", i |-> 0, len |-> 0, jobs |-> 0]
NoSize == <<0, 0>>

\* The script is not running.
ProgIdle ==
    /\ args = NoArgs
    /\ fs = <<>>
    /\ pc = "idle"
    /\ row = 0
    /\ i = 0
    /\ frame = NoSize
    /\ region = <<NoSize, NoSize>>
    /\ img = <<NoSize, NoSize>>
    /\ trace = <<>>
    /\ jobs = <<>>
    /\ failure = NoFailure

ImageInit ==
    /\ image \in InputImages
    /\ prev = image
    /\ iop = "none"
    /\ ProgIdle

\* One function applied to the current image; a raised exception ends the run.
Apply(op, result) ==
    /\ ~IsError(image)
    /\ prev' = image
    /\ image' = result
    /\ iop' = op
    /\ UNCHANGED progVars

Reduce ==
    /\ iop = "none"
    /\ \E slip \in {0, 1} : Apply("reduce", reduce_image_size(image, slip))

ReplaceBorders ==
    /\ iop \in {"none", "reduce"}
    /\ Apply("borders", replace_borders_with_white(image, BORDER_SIZE))

SaveImage ==
    /\ iop = "borders"
    /\ Apply("save", IF CanSave(image.w, image.h) THEN image ELSE Raised("ValueError"))

ImageNext == Reduce \/ ReplaceBorders \/ SaveImage

ImageSpec == ImageInit /\ [][ImageNext]_vars

-----------------------------------------------------------------------------
\* The program: main, process_single_url, capture_and_save_images.

Folders == {"out_a", "out_b"}
\* --iterations and the second CSV field are any int; range() of a negative
\* count is empty.
IterationCounts == -1 .. MaxIterations
\* A page number no Job of the model writes: the file an earlier run left in
\* every folder.
StalePage == 2 * MaxIterations + 3
\* Screenshots: the window size set by configure_browser, and a smaller viewport.
FrameSizes == {<<3840, 2160>>, <<800, 600>>}

\* A row of the CSV file; bad is a row that does not unpack into
\* url, iterations, folder with an int in the second field.
CsvRows ==
    [bad : {FALSE}, iterations : IterationCounts, folder : Folders]
        \cup {[bad |-> TRUE, iterations |-> 0, folder |-> ""]}

\* argparse: absent options are None, which is false like 0 and "".
ArgSet ==
    {[csv_file |-> TRUE, url |-> FALSE, iterations |-> 0, folder |-> ""]}
        \cup [csv_file : {FALSE}, url : BOOLEAN, iterations : IterationCounts,
              folder : Folders \cup {""}]

ImageIdle ==
    /\ image = Raised("none")
    /\ prev = image
    /\ iop = "none"

Init ==
    /\ args \in ArgSet
    /\ fs = [f \in Folders |-> {StalePage}]
    /\ pc = "main"
    /\ row = 0
    /\ i = 0
    /\ frame = NoSize
    /\ region = <<NoSize, NoSize>>
    /\ img = <<NoSize, NoSize>>
    /\ trace = <<>>
    /\ jobs = <<>>
    /\ failure = NoFailure
    /\ ImageIdle

\* The Job that is running: the arguments of the current process_single_url.
Job == jobs[Len(jobs)]
Event(op, page) == [op |-> op, i |-> i, page |-> page]
Log(op, page) == trace' = Append(trace, Event(op, page))
SetJob(field, value) == jobs' = [jobs EXCEPT ![Len(jobs)][field] = value]

\* The exception is caught and main goes on with the next row.
RaiseAndContinue ==
    /\ pc' = "for_row"
    /\ failure' = [at |-> pc, i |-> i, len |-> Len(trace), jobs |-> Len(jobs)]

\* The exception is swallowed and the loop goes on to the click.
RaiseAndSkip ==
    /\ pc' = IF pc \in {"screenshot", "crop", "normalize", "save_left", "save_right"}
             THEN "click" ELSE "failed"
    /\ failure' = [at |-> pc, i |-> i, len |-> Len(trace), jobs |-> Len(jobs)]

\* An exception raised by the statement at pc: nothing in the script catches
\* it, so it leaves process_single_url and main and ends the process.
Raise ==
    /\ pc' = "failed"
    /\ failure' = [at |-> pc, i |-> i, len |-> Len(trace), jobs |-> Len(jobs)]

\* process_single_url(url, iterations, folder, chromedriver_path) is called.
Call(r, iterations, folder) ==
    /\ jobs' = Append(jobs, [row |-> r, iterations |-> iterations, folder |-> folder,
                             browser |-> "none", done |-> FALSE])
    /\ trace' = <<>>
    /\ i' = 0
    /\ pc' = "setup_folder"

\* main up to the branch on the arguments: load_config and open(csv_file) may
\* raise.
Main ==
    /\ pc = "main"
    /\ \E ok \in BOOLEAN :
        IF ~ok
        THEN Raise /\ UNCHANGED <<trace, jobs, i>>
        ELSE /\ UNCHANGED failure
             /\ IF args.csv_file
                THEN pc' = "for_row" /\ UNCHANGED <<trace, jobs, i>>
                ELSE IF args.url /\ args.iterations # 0 /\ args.folder # ""
                THEN Call(0, args.iterations, args.folder)
                ELSE pc' = "usage" /\ UNCHANGED <<trace, jobs, i>>
    /\ UNCHANGED <<args, fs, row, frame, region, img, imageVars>>

\* for row in reader: the reader hands over the next row of the file, or ends.
NextRow ==
    /\ pc = "for_row"
    /\ \/ /\ row < MaxRows
          /\ row' = row + 1
          /\ \E r \in CsvRows :
                IF r.bad
                THEN Raise /\ UNCHANGED <<trace, jobs, i>>
                ELSE Call(row + 1, r.iterations, r.folder) /\ UNCHANGED failure
       \/ /\ pc' = "exit"
          /\ UNCHANGED <<row, trace, jobs, i, failure>>
    /\ UNCHANGED <<args, fs, frame, region, img, imageVars>>

\* setup_folder: rmtree may stop part way.
SetupFolder ==
    /\ pc = "setup_folder"
    /\ \E ok \in BOOLEAN :
        IF ok
        THEN /\ fs' = [fs EXCEPT ![Job.folder] = {}]
             /\ pc' = "configure_browser"
             /\ UNCHANGED failure
        ELSE /\ \E left \in SUBSET fs[Job.folder] : fs' = [fs EXCEPT ![Job.folder] = left]
             /\ Raise
    /\ UNCHANGED <<args, row, i, frame, region, img, trace, jobs, imageVars>>

\* configure_browser, webdriver.Chrome(...): the browser starts.
LaunchBrowser ==
    /\ pc = "configure_browser"
    /\ \E ok \in BOOLEAN :
        IF ok
        THEN SetJob("browser", "open") /\ pc' = "set_window_size" /\ UNCHANGED failure
        ELSE Raise /\ UNCHANGED jobs
    /\ UNCHANGED <<args, fs, row, i, frame, region, img, trace, imageVars>>

\* A statement of process_single_url that changes nothing the model holds.
Statement(at, next) ==
    /\ pc = at
    /\ \E ok \in BOOLEAN :
        IF ok THEN pc' = next /\ UNCHANGED failure ELSE Raise
    /\ UNCHANGED <<args, fs, row, i, frame, region, img, trace, jobs, imageVars>>

\* configure_browser, driver.set_window_size(3840, 2160).
SetWindowSize == Statement("set_window_size", "get")
\* driver.get(url); time.sleep(3).
Navigate == Statement("get", "remove_page_padding")
RemovePagePadding == Statement("remove_page_padding", "remove_fisheye")
\* remove_fisheye, then ActionChains(driver).move_by_offset(3150, 930) and the
\* call of capture_and_save_images.
RemoveFisheye == Statement("remove_fisheye", "for_i")

\* driver.quit(), and the return to main.
Quit ==
    /\ pc = "quit"
    /\ \E ok \in BOOLEAN :
        IF ok
        THEN /\ jobs' = [jobs EXCEPT ![Len(jobs)].browser = "quit",
                                     ![Len(jobs)].done = TRUE]
             /\ pc' = IF args.csv_file THEN "for_row" ELSE "exit"
             /\ UNCHANGED failure
        ELSE Raise /\ UNCHANGED jobs
    /\ UNCHANGED <<args, fs, row, i, frame, region, img, trace, imageVars>>

\* ---- capture_and_save_images

\* range(iterations) with one iteration too many.
HasNextInclusive(index, iterations) == index <= iterations

\* for i in range(iterations): whether there is an iteration of this index.
HasNext(index, iterations) == index < iterations

\* Both pages of an iteration numbered alike.
next_page_same(index) == index * 2 + 1

\* The left page numbered two too high.
act_page_off_by_two(index) == index * 2 + 3

act_page(index) == index * 2 + 1
next_page(index) == index * 2 + 2

Size(im) == <<im.w, im.h>>
\* full_image, region_left and region_right for the frame held.
FullImage == Img(frame[1], frame[2], FALSE, NoPixels)
RegionLeft == crop(FullImage, PAGE_LEFT)
RegionRight == crop(FullImage, PAGE_RIGHT)
\* replace_borders_with_white(reduce_image_size(region), BORDER_SIZE)
Normalized(reg, slip) ==
    LET reduced == reduce_image_size(reg, slip)
    IN  IF IsError(reduced) THEN reduced
        ELSE replace_borders_with_white(reduced, BORDER_SIZE)

\* The settle delay taken once, before the first iteration only.
LoopHeadSleepOnce ==
    /\ pc = "for_i"
    /\ pc' = IF HasNext(i, Job.iterations)
             THEN (IF i = 0 THEN "sleep" ELSE "screenshot")
             ELSE "quit"
    /\ UNCHANGED <<args, fs, row, i, frame, region, img, trace, jobs, failure, imageVars>>

\* The head of the loop: the next iteration, or the return to process_single_url.
LoopHead ==
    /\ pc = "for_i"
    /\ pc' = IF HasNext(i, Job.iterations) THEN "sleep" ELSE "quit"
    /\ UNCHANGED <<args, fs, row, i, frame, region, img, trace, jobs, failure, imageVars>>

\* time.sleep(3.5)
Sleep ==
    /\ pc = "sleep"
    /\ Log("sleep", 0)
    /\ pc' = "screenshot"
    /\ UNCHANGED <<args, fs, row, i, frame, region, img, jobs, failure, imageVars>>

\* png = driver.get_screenshot_as_png()
Screenshot ==
    /\ pc = "screenshot"
    /\ \E ok \in BOOLEAN :
        IF ok
        THEN /\ \E size \in FrameSizes : frame' = size
             /\ Log("capture", 0)
             /\ pc' = "crop"
             /\ UNCHANGED failure
        ELSE Raise /\ UNCHANGED <<frame, trace>>
    /\ UNCHANGED <<args, fs, row, i, region, img, jobs, imageVars>>

\* Image.open(BytesIO(png)) and the two crops; a png that does not decode raises.
Extract ==
    /\ pc = "crop"
    /\ \E ok \in BOOLEAN :
        IF ok /\ ~IsError(RegionLeft) /\ ~IsError(RegionRight)
        THEN /\ region' = <<Size(RegionLeft), Size(RegionRight)>>
             /\ Log("extract", 0)
             /\ pc' = "normalize"
             /\ UNCHANGED failure
        ELSE Raise /\ UNCHANGED <<region, trace>>
    /\ UNCHANGED <<args, fs, row, i, frame, img, jobs, imageVars>>

\* img_left and img_right
img_left(slip) == Normalized(RegionLeft, slip)
img_right(slip) == Normalized(RegionRight, slip)

Normalize ==
    /\ pc = "normalize"
    /\ \E slip \in {0, 1} :
        IF ~IsError(img_left(slip)) /\ ~IsError(img_right(slip))
        THEN /\ img' = <<Size(img_left(slip)), Size(img_right(slip))>>
             /\ Log("normalize", 0)
             /\ pc' = "save_left"
             /\ UNCHANGED failure
        ELSE Raise /\ UNCHANGED <<img, trace>>
    /\ UNCHANGED <<args, fs, row, i, frame, region, jobs, imageVars>>

\* image.save(os.path.join(folder, f"pag_{page}.jpg"), ...): a save that fails
\* may have created the file already (whether Pillow removes it again depends
\* on its version).
Save(at, next, size, page) ==
    /\ pc = at
    /\ \E ok \in BOOLEAN :
        IF ok /\ CanSave(size[1], size[2])
        THEN /\ fs' = [fs EXCEPT ![Job.folder] = @ \cup {page}]
             /\ Log("save", page)
             /\ pc' = next
             /\ UNCHANGED failure
        ELSE /\ \E partial \in SUBSET {page} :
                    fs' = [fs EXCEPT ![Job.folder] = @ \cup partial]
             /\ Raise
             /\ UNCHANGED trace
    /\ UNCHANGED <<args, row, i, frame, region, img, jobs, imageVars>>

SaveLeft == Save("save_left", "save_right", img[1], act_page(i))
SaveRight == Save("save_right", "click", img[2], next_page(i))

\* actions.click().perform(), and the loop's next index.
Advance ==
    /\ pc = "click"
    /\ \E ok \in BOOLEAN :
        IF ok
        THEN /\ Log("advance", 0)
             /\ i' = i + 1
             /\ pc' = "for_i"
             /\ UNCHANGED failure
        ELSE Raise /\ UNCHANGED <<i, trace>>
    /\ UNCHANGED <<args, fs, row, frame, region, img, jobs, imageVars>>

Next ==
    \/ Main
    \/ NextRow
    \/ SetupFolder
    \/ LaunchBrowser
    \/ SetWindowSize
    \/ Navigate
    \/ RemovePagePadding
    \/ RemoveFisheye
    \/ LoopHead
    \/ Sleep
    \/ Screenshot
    \/ Extract
    \/ Normalize
    \/ SaveLeft
    \/ SaveRight
    \/ Advance
    \/ Quit

Spec == Init /\ [][Next]_vars

\* The script is one thread: it takes its next step until it returns or raises.
FairSpec == Spec /\ WF_vars(Next)

-----------------------------------------------------------------------------
\* Properties of the image functions (checked under ImageSpec).

Returned(op) == iop = op /\ ~IsError(image)

\* C2: replace_borders_with_white applied to an image of width <= 2*BORDER_SIZE
\* fails with an error; it never returns a zero-width image.
C2_NarrowImageRaises ==
    (iop = "borders" /\ prev.w <= 2 * BORDER_SIZE) => IsError(image)

\* C3: for an input wider than 2*BORDER_SIZE, the leftmost BORDER_SIZE columns and
\* the rightmost BORDER_SIZE columns of the output of replace_borders_with_white
\* are white.
C3_OutputBordersWhite ==
    (Returned("borders") /\ prev.w > 2 * BORDER_SIZE) =>
        \A c \in Columns(image) :
            (c < BORDER_SIZE \/ c >= image.w - BORDER_SIZE) => image.px[c] = White

\* C4: reduce_image_size only scales down: an input beyond the envelope on either
\* axis comes out within it, no output dimension is larger than the input's, and
\* an input within the envelope keeps its dimensions.
C4_OnlyScalesDown ==
    Returned("reduce") =>
        /\ (prev.w > a4_width \/ prev.h > a4_height) =>
                (image.w <= a4_width /\ image.h <= a4_height)
        /\ image.w <= prev.w
        /\ image.h <= prev.h
        /\ (prev.w <= a4_width /\ prev.h <= a4_height) =>
                (image.w = prev.w /\ image.h = prev.h)

-----------------------------------------------------------------------------
\* Properties of the program (checked under Spec; C8 under FairSpec).

\* The steps of one cycle of the loop, in the order of the code.
Cycle == <<"sleep", "capture", "extract", "normalize", "save", "save", "advance">>
Ops(op) == Len(SelectSeq(trace, LAMBDA e : e.op = op))
Saves == SelectSeq(trace, LAMBDA e : e.op = "save")
\* The page numbers written by the current Job, in the order of writing.
Written == [k \in 1 .. Len(Saves) |-> Saves[k].page]
Running == Len(jobs) > 0
\* capture_and_save_images has returned to process_single_url.
LoopReturned == Running /\ (pc = "quit" \/ failure.at = "quit" \/ Job.done)
LoopStatements == {"screenshot", "crop", "normalize", "save_left", "save_right"}

\* C1: when capture_and_save_images completes for iterations = n >= 0, the pages
\* written are exactly 1 .. 2n, each once: iteration i writes 2i+1 then 2i+2.
C1_PagesExactly ==
    (LoopReturned /\ Job.iterations >= 0) =>
        LET n == Job.iterations
        IN  /\ Len(Saves) = 2 * n
            /\ { Written[k] : k \in 1 .. Len(Saves) } = 1 .. (2 * n)
            /\ \A j \in 0 .. (n - 1) :
                /\ Saves[2 * j + 1] = [op |-> "save", i |-> j, page |-> 2 * j + 1]
                /\ Saves[2 * j + 2] = [op |-> "save", i |-> j, page |-> 2 * j + 2]
            /\ fs[Job.folder] = 1 .. (2 * n)

\* A Job of two or more iterations has completed its loop.
C1_Witness ==
    /\ LoopReturned
    /\ Job.iterations >= 2
    /\ fs[Job.folder] = 1 .. (2 * Job.iterations)

\* C5: when a step of iteration k fails (screenshot, crop, normalize or a save),
\* the Job is over: nothing of the loop runs after it, so there is no retry of
\* iteration k, no file of a later iteration, no further capture and no advance
\* for iteration k or later.
C5_FailureAborts ==
    (failure.at \in LoopStatements) =>
        LET k == failure.i
        IN  /\ pc = "failed"
            /\ i = k
            /\ Len(trace) = failure.len
            /\ Len(jobs) = failure.jobs
            /\ \A e \in 1 .. Len(trace) :
                /\ trace[e].i <= k
                /\ trace[e].op = "advance" => trace[e].i < k
                /\ trace[e].op = "save" => trace[e].page <= 2 * k + 2
            /\ Ops("capture") <= k + 1
            /\ Ops("advance") = k

\* The right page of the second iteration could not be saved.
C5_Witness ==
    /\ pc = "failed"
    /\ failure.at = "save_right"
    /\ failure.i = 1
    /\ Written = <<1, 2, 3>>

\* C6: the steps of the loop occur in the order sleep, capture, extract,
\* normalize, save left, save right, advance, cycle after cycle: a capture
\* directly follows a sleep, the advance of iteration i follows its two saves,
\* and the capture of iteration i+1 follows the advance of iteration i.
C6_CycleOrder ==
    \A k \in 1 .. Len(trace) :
        /\ trace[k].op = Cycle[((k - 1) % Len(Cycle)) + 1]
        /\ trace[k].i = (k - 1) \div Len(Cycle)

\* Two full cycles have run: the second advance was the last step.
C6_Witness ==
    /\ Len(trace) = 2 * Len(Cycle)
    /\ trace[Len(trace)].op = "advance"
    /\ pc = "for_i"

\* C7: files are created in increasing page order: when pag_m.jpg is written it
\* is the next page after those written, the folder then holds exactly pages
\* 1 .. m.
C7_IncreasingOrder ==
    [][(Len(trace') = Len(trace) + 1 /\ trace'[Len(trace')].op = "save") =>
         LET m == trace'[Len(trace')].page
         IN  /\ m = Len(Saves) + 1
             /\ \A k \in 1 .. Len(Saves) : Written[k] = k
             /\ fs'[Job.folder] = 1 .. m]_vars

\* Four pages were written, into a folder that held a stale file before.
C7_Witness ==
    /\ Written = <<1, 2, 3, 4>>
    /\ \E f \in Folders : f # Job.folder /\ fs[f] = {StalePage}

\* C8: a Job of n >= 0 iterations whose steps do not fail ends with the loop
\* returned, after exactly n sleeps, n captures, n advances and 2n pages.
C8_ExactlyNCycles ==
    /\ []((LoopReturned /\ Job.iterations >= 0) =>
            /\ Ops("sleep") = Job.iterations
            /\ Ops("capture") = Job.iterations
            /\ Ops("advance") = Job.iterations
            /\ Ops("save") = 2 * Job.iterations
            /\ i = Job.iterations)
    /\ ((pc = "for_i" /\ i = 0) ~> (pc = "quit" \/ pc = "failed"))

\* The loop of a Job of two or more iterations has returned.
C8_Witness ==
    /\ Running
    /\ pc = "quit"
    /\ Job.iterations >= 2
    /\ Ops("advance") = Job.iterations

\* C10: an exception raised anywhere ends the script: the Job's browser is not
\* quit (only a completed loop is followed by driver.quit), no later row is
\* started, and a Job begins only after every earlier Job completed and quit its
\* browser, in row order.
C10_FailureEndsBatch ==
    /\ \A k \in 1 .. Len(jobs) :
        /\ k < Len(jobs) => jobs[k].done
        /\ jobs[k].done <=> jobs[k].browser = "quit"
        /\ args.csv_file => jobs[k].row = k
    /\ (Running /\ Job.browser = "quit") =>
            (Job.iterations >= 0 => Ops("advance") = Job.iterations)
    /\ Len(jobs) <= (IF args.csv_file THEN row ELSE 1)
    /\ failure.at # "" =>
        /\ pc = "failed"
        /\ Len(jobs) = failure.jobs
        /\ failure.at \notin {"main", "for_row"} => (~Job.done /\ Job.browser # "quit")

\* The second Job of a batch failed in its loop, its browser still open.
C10_Witness ==
    /\ pc = "failed"
    /\ Len(jobs) = 2
    /\ jobs[1].done
    /\ failure.at = "screenshot"
    /\ Job.browser = "open"

====
